---- MODULE Spec2Model ----
(***************************************************************************)
(* A model of pouty's console printer (src/pouty/console.py).              *)
(*                                                                         *)
(* A Python string is a sequence of one-character strings, so that         *)
(* formatting, splitting, slicing and the escape-stripping regular         *)
(* expression are computed character by character as the code does.        *)
(* Python's None is the string "None" where the other values are strings,  *)
(* and the record FdNone for the file handle.                              *)
(***************************************************************************)
EXTENDS Integers, Sequences, FiniteSets, TLC

VARIABLES
    QUIET_MODE,     \* console.py:15 module global
    DEBUG_MODE,     \* console.py:16 module global
    _outputfile,    \* ConsolePrinter._outputfile (class attribute): "None" or a path
    _fd,            \* ConsolePrinter._fd (class attribute): FdNone or an open handle
    _timestamp,     \* ConsolePrinter._timestamp (class attribute)
    _hanging,       \* ConsolePrinter._hanging (class attribute)
    _prefix,        \* self._prefix of each printer instance
    _pref,          \* self._pref of each instance, as the code of its color function
    _msgf,          \* self._msgf of each instance, as the code of its color function
    _notifier,      \* self._notifier of each instance: constructed or not
    fs,             \* the file system: path -> [exists, data]
    pc,             \* "idle": the caller is between calls; "returned": a call just returned
    last,           \* the call that just returned: its name and arguments
    pre,            \* the printer state the call that just returned started from
    out,            \* what that call wrote to the console: <<[stream, text], ...>>
    sent,           \* the notifications that call forwarded: <<[body, title, subtitle], ...>>
    raised,         \* the exception that call raised to its caller, "none" if it returned
    handles,        \* the operating system's count of open handles on each path
    s_in,           \* the input string of the string specifications
    c_in,           \* the color name of the color-stripping specification, "None" before it is chosen
    abars,          \* the AnyBar objects: made, color, port and pid of each
    _instances,     \* AnyBar._instances, the list of the objects that launched a process
    procs,          \* the pids of the AnyBar processes the operating system runs
    nextpid,        \* the pid the next launched process gets
    sentto,         \* the datagrams the call in progress sent
    a_pre,          \* the AnyBar state when that call started
    plain           \* every AnyBar call so far was AnyBar(singleton=False), start() or quit()

consoleVars == <<QUIET_MODE, DEBUG_MODE, _outputfile, _fd, _timestamp, _hanging,
                 _prefix, _pref, _msgf, _notifier, fs, pc, last, pre, out, sent,
                 raised, handles>>

anybarVars == <<abars, _instances, procs, nextpid, sentto, a_pre, plain>>

vars == <<consoleVars, s_in, c_in, anybarVars>>

-----------------------------------------------------------------------------
(* Characters and string helpers                                           *)

ESC == "ESC"        \* the character \x1b (also written \033)
NL  == "\n"
Digits == {"0", "1", "2", "3", "4", "5", "6", "7", "8", "9"}

\* str.endswith('\n')
EndsWithNL(s) == Len(s) > 0 /\ s[Len(s)] = NL

\* s[n:]
SliceFrom(s, n) == IF n >= Len(s) THEN <<>> ELSE SubSeq(s, n + 1, Len(s))

\* ' ' * n
Spaces(n) == [k \in 1..n |-> " "]

\* str.strip(): surrounding whitespace removed
RECURSIVE LStrip(_)
LStrip(s) == IF s # <<>> /\ s[1] \in {" ", NL} THEN LStrip(Tail(s)) ELSE s

RECURSIVE RStrip(_)
RStrip(s) ==
    IF s # <<>> /\ s[Len(s)] \in {" ", NL}
    THEN RStrip(SubSeq(s, 1, Len(s) - 1))
    ELSE s

StrStrip(s) == RStrip(LStrip(s))

\* str.split('\n'): always at least one piece
RECURSIVE SplitNL(_)
SplitNL(s) ==
    IF \E k \in 1..Len(s) : s[k] = NL
    THEN LET k == CHOOSE j \in 1..Len(s) :
                     s[j] = NL /\ \A h \in 1..(j - 1) : s[h] # NL
         IN <<SubSeq(s, 1, k - 1)>> \o SplitNL(SliceFrom(s, k))
    ELSE <<s>>

\* template.format(*args) for automatically numbered '{}' fields
RECURSIVE StrFormat(_, _)
StrFormat(t, args) ==
    IF t = <<>> THEN <<>>
    ELSE IF Len(t) >= 2 /\ t[1] = "{" /\ t[2] = "}" /\ args # <<>>
         THEN args[1] \o StrFormat(SliceFrom(t, 2), Tail(args))
         ELSE <<t[1]>> \o StrFormat(Tail(t), args)

-----------------------------------------------------------------------------
(* Terminal color functions                                                *)

WINDOWS == FALSE    \* console.py:17, platform == 'win32' on the modelled host

_color_format(code, text) ==
    <<ESC, "[">> \o code \o <<"m">> \o text \o <<ESC, "[", "0", "m">>

\* the code each color function passes to _color_format
COL_FUNC ==
    [snow       |-> <<"1", ";", "3", "7">>,
     white      |-> <<"0", ";", "3", "7">>,
     lightgray  |-> <<"1", ";", "3", "6">>,
     smoke      |-> <<"1", ";", "3", "6">>,
     dimgray    |-> <<"1", ";", "3", "3">>,
     gray       |-> <<"1", ";", "3", "0">>,
     cadetblue  |-> <<"1", ";", "3", "4">>,
     seafoam    |-> <<"1", ";", "3", "2">>,
     cyan       |-> <<"0", ";", "3", "6">>,
     blue       |-> <<"0", ";", "3", "4">>,
     purple     |-> <<"1", ";", "3", "5">>,
     pink       |-> <<"0", ";", "3", "5">>,
     red        |-> <<"0", ";", "3", "1">>,
     orange     |-> <<"1", ";", "3", "1">>,
     yellow     |-> <<"0", ";", "3", "3">>,
     ochre      |-> <<"0", ";", "3", "3">>,
     green      |-> <<"0", ";", "3", "2">>,
     lightred   |-> <<"1", ";", "3", "1">>,
     lightgreen |-> <<"1", ";", "3", "2">>,
     brown      |-> <<"0", ";", "3", "3">>,
     lightblue  |-> <<"1", ";", "3", "4">>,
     lightcyan  |-> <<"1", ";", "3", "6">>,
     default    |-> <<>>]

COLORS == DOMAIN COL_FUNC

DEFAULT_PREFIX_COLOR == "cyan"
DEFAULT_MSG_COLOR == "default"

\* a color function applied to a string; "str" is the identity used on Windows
Colored(code, s) == IF code = <<"s", "t", "r">> THEN s ELSE _color_format(code, s)

-----------------------------------------------------------------------------
(* re.sub('(\x1b\[\d;\d\dm)|(\x1b\[0m)', '', s): one left-to-right pass    *)
(* over the string, removing each non-overlapping match.                   *)

MatchLong(s, i) ==
    /\ i + 6 <= Len(s)
    /\ s[i] = ESC /\ s[i + 1] = "["
    /\ s[i + 2] \in Digits /\ s[i + 3] = ";"
    /\ s[i + 4] \in Digits /\ s[i + 5] \in Digits
    /\ s[i + 6] = "m"

MatchShort(s, i) ==
    /\ i + 3 <= Len(s)
    /\ s[i] = ESC /\ s[i + 1] = "[" /\ s[i + 2] = "0" /\ s[i + 3] = "m"

RECURSIVE StripFrom(_, _)
StripFrom(s, i) ==
    IF i > Len(s) THEN <<>>
    ELSE IF MatchLong(s, i) THEN StripFrom(s, i + 7)
    ELSE IF MatchShort(s, i) THEN StripFrom(s, i + 4)
    ELSE <<s[i]>> \o StripFrom(s, i + 1)

StripEscapes(s) == StripFrom(s, 1)

-----------------------------------------------------------------------------
(* Bounds and inputs                                                       *)

MaxLog == 1             \* a call that writes, or a mode change, is explored only while the logs together hold at most this many characters

Insts == {1, 2}         \* printer instances: 1 is the module's Logger, 2 has a prefix
Paths == {"p1", "p2"}   \* log file paths

Str_hello     == <<"h", "e", "l", "l", "o">>
Str_ab        == <<"a", NL, "b">>
Str_ErrTmpl   == <<"E", "r", "r", "o", "r", ":", " ", "{", "}">>
Str_diskfull  == <<"d", "i", "s", "k", " ", "f", "u", "l", "l">>
Str_Debug     == <<"D", "e", "b", "u", "g">>
Str_Warning   == <<"W", "a", "r", "n", "i", "n", "g">>
Str_Error     == <<"E", "r", "r", "o", "r">>
Str_ERROR     == <<"E", "R", "R", "O", "R", " ", "-", ">", " ">>
Str_WARNING   == <<"W", "A", "R", "N", "I", "N", "G", " ", "-", ">", " ">>
Str_Console   == <<"C", "o", "n", "s", "o", "l", "e">>
Str_x         == <<"x">>
Str_xNL       == <<"x", NL>>
Str_pp        == <<"p", "p">>
Str_io        == <<"i", "o">>
Str_t         == <<"t">>

\* the argument tuples *msg of the modelled calls
Msgs == {<<>>, <<Str_hello>>, <<Str_ab>>, <<Str_ErrTmpl, Str_diskfull>>}

\* the strings of the modelled printf calls
RawStrs == {Str_x, Str_xNL}

-----------------------------------------------------------------------------
(* The printer state as one value, so that a handler can call another      *)

FdNone == [path |-> "None", closed |-> TRUE]

NoFile == [exists |-> FALSE, data |-> <<>>]

World ==
    [QUIET_MODE |-> QUIET_MODE, DEBUG_MODE |-> DEBUG_MODE,
     _outputfile |-> _outputfile, _fd |-> _fd, _timestamp |-> _timestamp,
     _hanging |-> _hanging, _notifier |-> _notifier, fs |-> fs,
     handles |-> handles, out |-> <<>>, sent |-> <<>>, raised |-> "none"]

\* the part of a world that outlives the call
Snap(w) ==
    [QUIET_MODE |-> w.QUIET_MODE, DEBUG_MODE |-> w.DEBUG_MODE,
     _outputfile |-> w._outputfile, _fd |-> w._fd, _timestamp |-> w._timestamp,
     _hanging |-> w._hanging, _notifier |-> w._notifier, fs |-> w.fs,
     handles |-> w.handles]

Raise(w, exc) == [w EXCEPT !.raised = exc]

\* print(text, file=stream, end='')
ConsoleWrite(w, stream, text) ==
    [w EXCEPT !.out = Append(@, [stream |-> stream, text |-> text])]

\* cls._fd.write(text)
FileWrite(w, text) ==
    [w EXCEPT !.fs[w._fd.path].data = @ \o text]

\* the total size of the log files
RECURSIVE LogSize(_, _)
LogSize(f, ps) ==
    IF ps = {} THEN 0
    ELSE LET p == CHOOSE q \in ps : TRUE
         IN Len(f[p].data) + LogSize(f, ps \ {p})

-----------------------------------------------------------------------------
(* ConsolePrinter: the log file                                            *)

_isopen(w) == w._fd # FdNone /\ ~w._fd.closed

\* the file opened in append mode whatever newfile says
OpenedFile_AlwaysAppend(f, newfile) ==
    IF ~f.exists THEN [exists |-> TRUE, data |-> <<>>] ELSE f

\* open(path, mode, 1): 'w' truncates, 'a' keeps the content, both create
OpenedFile(f, newfile) ==
    IF newfile \/ ~f.exists THEN [exists |-> TRUE, data |-> <<>>] ELSE f

\* ok: whether the operating system lets open() succeed
openfile(w, newfile, ok) ==
    IF w._outputfile = "None" THEN Raise(w, "NameError")   \* sys is not imported
    ELSE IF _isopen(w) THEN w
    ELSE IF ok
         THEN [w EXCEPT !._fd = [path |-> w._outputfile, closed |-> FALSE],
                        !.handles[w._outputfile] = @ + 1,
                        !.fs[w._outputfile] = OpenedFile(@, newfile)]
         ELSE Raise([w EXCEPT !._outputfile = "None", !._fd = FdNone],
                    "NameError")                           \* sys is not imported

closefile(w) ==
    IF ~_isopen(w) THEN [w EXCEPT !._fd = FdNone]
    ELSE [w EXCEPT !.handles[w._fd.path] = @ - 1, !._fd = FdNone]

removefile(w) ==
    LET w1 == closefile(w)
    IN IF w1._outputfile = "None" THEN Raise(w1, "TypeError")
       ELSE IF ~w1.fs[w1._outputfile].exists THEN Raise(w1, "OSError")
       ELSE [w1 EXCEPT !.fs[w1._outputfile] = NoFile]

\* the old file left open when the path changes
set_outputfile_NoClose(w, fpath, newfile, ok) ==
    IF fpath = w._outputfile /\ _isopen(w) THEN w
    ELSE LET w1 == [w EXCEPT !._outputfile = fpath, !._fd = FdNone]
         IN IF w1._outputfile # "None" THEN openfile(w1, newfile, ok) ELSE w1

\* the file closed and opened again even when the path is the open one
set_outputfile_AlwaysReopen(w, fpath, newfile, ok) ==
    LET w1 == [closefile(w) EXCEPT !._outputfile = fpath, !._fd = FdNone]
    IN IF w1._outputfile # "None" THEN openfile(w1, newfile, ok) ELSE w1

set_outputfile(w, fpath, newfile, ok) ==
    IF fpath = w._outputfile /\ _isopen(w) THEN w
    ELSE LET w1 == [closefile(w) EXCEPT !._outputfile = fpath, !._fd = FdNone]
         IN IF w1._outputfile # "None" THEN openfile(w1, newfile, ok) ELSE w1

set_timestamps(w, active) == [w EXCEPT !._timestamp = active]

\* what __call__ writes for '[ %s ]  ' % self.timestamp(); T stands for the
\* date and time inside the brackets timestamp() returns
Stamp == <<"[", " ", "[", "T", "]", " ", "]", " ", " ">>

-----------------------------------------------------------------------------
(* ConsolePrinter: raw output                                              *)

\* wfail: whether the operating system fails the write to the log file
printf(w, i, s, color, wfail) ==
    IF w.QUIET_MODE THEN w
    ELSE IF color # "None" /\ color \notin COLORS THEN Raise(w, "KeyError")
    ELSE LET colf == IF color = "None" THEN _pref[i] ELSE COL_FUNC[color]
             w1 == ConsoleWrite(w, "stdout",
                                IF WINDOWS THEN s ELSE Colored(colf, s))
         IN IF _isopen(w1) /\ wfail THEN Raise(w1, "OSError")
            ELSE LET w2 == IF _isopen(w1)
                           THEN FileWrite(w1, StripEscapes(s))
                           ELSE w1
                 IN [w2 EXCEPT !._hanging = ~EndsWithNL(s)]

newline(w, i, wfail) == printf(w, i, <<NL>>, "None", wfail)

-----------------------------------------------------------------------------
(* ConsolePrinter.__call__                                                 *)
(*                                                                         *)
(* o is the record of keyword options: hideprefix, popup, debug, error,    *)
(* warning are booleans; prefix and quiet are <<>> when the keyword is     *)
(* not passed and <<value>> when it is.                                    *)

\* roto.paths.tilde: a leading home directory becomes '~'
Home == <<"/", "h">>
Tilde(m) ==
    IF Len(m) >= Len(Home) /\ SubSeq(m, 1, Len(Home)) = Home
    THEN <<"~">> \o SliceFrom(m, Len(Home))
    ELSE m

\* quiet = fmt.pop('quiet', QUIET_MODE)
QuietFor(w, o) == IF o.quiet # <<>> THEN o.quiet[1] ELSE w.QUIET_MODE

\* the quick exit taken without looking at warning and error
Gated_SeverityIgnored(w, o) ==
    QuietFor(w, o) \/ (o.debug /\ ~w.DEBUG_MODE)

\* the quick exit at the top of __call__
Gated(w, o) ==
    /\ ~(o.warning \/ o.error)
    /\ (QuietFor(w, o) \/ (o.debug /\ ~w.DEBUG_MODE))

\* prefix after the severity overrides
PrefixOf(i, o) ==
    IF o.error THEN Str_Error
    ELSE IF o.warning THEN Str_Warning
    ELSE IF o.debug THEN Str_Debug
    ELSE StrStrip(IF o.prefix # <<>> THEN o.prefix[1] ELSE _prefix[i])

\* pre before hideprefix blanks it, whose length is pre_len
PreOf(i, o) ==
    LET prefix == PrefixOf(i, o)
    IN IF prefix # <<>> THEN prefix \o <<":", " ">> ELSE <<>>

\* the display message; defined for a non-empty msg
MessageOf(msg) ==
    LET m == IF Len(msg) = 1 THEN msg[1] ELSE StrFormat(msg[1], Tail(msg))
    IN IF \E k \in 1..Len(m) : m[k] = "/" THEN Tilde(m) ELSE m

\* pref, msgf, console of the severity
PrefColor(i, o) ==
    IF o.error THEN COL_FUNC.red
    ELSE IF o.warning THEN COL_FUNC.orange
    ELSE IF o.debug THEN COL_FUNC.dimgray
    ELSE _pref[i]

MsgColor(i, o) ==
    IF o.error THEN COL_FUNC.red
    ELSE IF o.warning THEN COL_FUNC.orange
    ELSE IF o.debug THEN COL_FUNC.smoke
    ELSE _msgf[i]

ConsoleOf(o) == IF o.error \/ o.warning THEN "stderr" ELSE "stdout"

\* print(first line) and the loop over the remaining lines
RECURSIVE PrintRest(_, _, _, _, _)
PrintRest(w, lines, pre_len, msgcol, console) ==
    IF lines = <<>> THEN w
    ELSE PrintRest(ConsoleWrite(w, console,
                       Spaces(pre_len) \o Colored(msgcol, lines[1]) \o <<NL>>),
                   Tail(lines), pre_len, msgcol, console)

\* the remaining lines indented by the prefix without its ': '
PrintLines_PrefixWidth(w, i, o, m) ==
    LET pre_len == Len(PreOf(i, o))
        pre0 == IF o.hideprefix THEN Spaces(pre_len) ELSE PreOf(i, o)
        lines == SplitNL(m)
        w1 == ConsoleWrite(w, ConsoleOf(o),
                  Colored(PrefColor(i, o), pre0)
                      \o Colored(MsgColor(i, o), lines[1]) \o <<NL>>)
    IN PrintRest(w1, Tail(lines), Len(PrefixOf(i, o)), MsgColor(i, o), ConsoleOf(o))

PrintLines(w, i, o, m) ==
    LET pre_len == Len(PreOf(i, o))
        pre0 == IF o.hideprefix THEN Spaces(pre_len) ELSE PreOf(i, o)
        lines == SplitNL(m)
        w1 == ConsoleWrite(w, ConsoleOf(o),
                  Colored(PrefColor(i, o), pre0)
                      \o Colored(MsgColor(i, o), lines[1]) \o <<NL>>)
    IN PrintRest(w1, Tail(lines), pre_len, MsgColor(i, o), ConsoleOf(o))

\* the display prefix written to the file for every severity
TagOf_DisplayPrefix(i, o) ==
    IF PrefixOf(i, o) # <<>> /\ PrefixOf(i, o) # _prefix[i] /\ ~o.hideprefix
    THEN PreOf(i, o)
    ELSE <<>>

\* what the file mirror writes before the message
TagOf(i, o) ==
    IF o.error THEN Str_ERROR
    ELSE IF o.warning THEN Str_WARNING
    ELSE IF PrefixOf(i, o) # <<>> /\ PrefixOf(i, o) # _prefix[i] /\ ~o.hideprefix
         THEN PreOf(i, o)
         ELSE <<>>

\* the record the file mirror writes
RecordOf(w, i, o, m) ==
    (IF w._timestamp THEN Stamp ELSE <<>>) \o TagOf(i, o)
        \o StripEscapes(m) \o <<NL>>

\* the body forwarded to the notifier for message m
BodyOf(o, m) ==
    IF o.error THEN SliceFrom(m, 7)
    ELSE IF o.warning THEN SliceFrom(m, 9)
    ELSE m

Popup(w, i, o, m) ==
    [w EXCEPT !._notifier[i] = TRUE,
              !.sent = Append(@, [body |-> BodyOf(o, m), title |-> Str_Console,
                                  subtitle |-> IF o.error THEN Str_Error
                                               ELSE IF o.warning THEN Str_Warning
                                               ELSE <<>>])]

\* debug messages mirrored to the file like the others
MirrorAndPopup_DebugMirrored(w, i, o, m, wfail) ==
    IF _isopen(w)
    THEN IF wfail THEN Raise(w, "OSError")
         ELSE LET w1 == FileWrite(w, RecordOf(w, i, o, m))
              IN IF o.popup THEN Popup(w1, i, o, StripEscapes(m)) ELSE w1
    ELSE IF o.popup THEN Popup(w, i, o, m) ELSE w

\* the file mirror and the popup, after the console output
MirrorAndPopup(w, i, o, m, wfail) ==
    IF _isopen(w) /\ ~o.debug
    THEN IF wfail THEN Raise(w, "OSError")
         ELSE LET w1 == FileWrite(w, RecordOf(w, i, o, m))
              IN IF o.popup THEN Popup(w1, i, o, StripEscapes(m)) ELSE w1
    ELSE IF o.popup THEN Popup(w, i, o, m) ELSE w

\* __call__ after the quick exit
CallBody(w, i, msg, o, wfail) ==
    IF Len(msg) = 0 THEN Raise(w, "ValueError")
    ELSE LET m == MessageOf(msg)
             w1 == IF w._hanging THEN newline(w, i, wfail) ELSE w
         IN IF w1.raised # "none" THEN w1
            ELSE MirrorAndPopup(PrintLines(w1, i, o, m), i, o, m, wfail)

\* the hanging line resolved before the quick exit
Call_ResolveBeforeExit(w, i, msg, o, wfail) ==
    IF Gated(w, o)
    THEN (IF w._hanging THEN newline(w, i, wfail) ELSE w)
    ELSE CallBody(w, i, msg, o, wfail)

Call(w, i, msg, o, wfail) ==
    IF Gated(w, o) THEN w ELSE CallBody(w, i, msg, o, wfail)

-----------------------------------------------------------------------------
(* AnyBar (src/pouty/anybar.py)                                            *)
(*                                                                         *)
(* None is IntNone for a port and for a pid, which are positive, and the   *)
(* string "None" for a color.  The platform is the one AnyBar runs on.     *)
(* The debug() messages of start() are not printed: DEBUG_MODE is off in   *)
(* every state of the AnyBar specification.                                *)

BASE_PORT == 1738

ANYBAR_COLORS ==
    {"white", "red", "orange", "yellow", "green", "cyan", "blue", "purple",
     "black", "question", "exclamation"}

DARWIN == TRUE

IntNone == 0

MaxPid == 3             \* processes launched in one behavior
RecursionLimit == 3     \* nested quit() calls before the interpreter raises RecursionError
ABars == {1, 2, 3}

Str_platform == <<"l", "i", "n", "u", "x">>
Str_NotAvailable ==
    <<"W", "a", "r", "n", "i", "n", "g", ":", " ", "A", "n", "y", "B", "a", "r",
      " ", "n", "o", "t", " ", "a", "v", "a", "i", "l", "a", "b", "l", "e", " ",
      "(">> \o Str_platform \o <<")", NL>>
Str_NotRunning ==
    <<"A", "n", "y", "B", "a", "r", ":", " ", "n", "o", "t", " ", "r", "u", "n",
      "n", "i", "n", "g", NL>>

NoBar == [made |-> FALSE, color |-> "None", port |-> IntNone, pid |-> IntNone]

AWorld ==
    [abars |-> abars, _instances |-> _instances, procs |-> procs,
     nextpid |-> nextpid, sentto |-> <<>>, out |-> <<>>, raised |-> "none"]

\* the part of an AnyBar world that outlives the call
ASnap(a) ==
    [abars |-> a.abars, _instances |-> a._instances, procs |-> a.procs,
     nextpid |-> a.nextpid]

\* x in seq
In(seq, x) == \E k \in 1..Len(seq) : seq[k] = x

\* list.remove(x)
RemoveFirst(seq, x) ==
    LET k == CHOOSE j \in 1..Len(seq) :
                 seq[j] = x /\ \A h \in 1..(j - 1) : seq[h] # x
    IN SubSeq(seq, 1, k - 1) \o SubSeq(seq, k + 1, Len(seq))

Reversed(seq) == [k \in 1..Len(seq) |-> seq[Len(seq) + 1 - k]]

RECURSIVE Ascending(_)
Ascending(S) ==
    IF S = {} THEN <<>>
    ELSE LET m == CHOOSE x \in S : \A y \in S : x <= y
         IN <<m>> \o Ascending(S \ {m})

\* Shell.pgrep('AnyBar'): the pids of the running AnyBar processes
pgrep(a) == Ascending(a.procs)

\* Shell.setenv('ANYBAR_PORT', port): 0 if the variable was set
setenv(ok) == IF ok THEN 0 ELSE 1

\* Shell.open_('AnyBar', newinstance=True): the pid of the launched process,
\* None if it was not launched
open_(a, ok) ==
    IF ok THEN [w |-> [a EXCEPT !.procs = @ \cup {a.nextpid}, !.nextpid = @ + 1],
                pid |-> a.nextpid]
    ELSE [w |-> a, pid |-> IntNone]

\* Shell.killall('AnyBar')
killall(a) == [a EXCEPT !.procs = {}]

\* subprocess.run(['kill', '-HUP', str(pid)]): returncode 0 if the process
\* was there to receive the signal
kill(a, pid) ==
    IF pid \in a.procs THEN [w |-> [a EXCEPT !.procs = @ \ {pid}], returncode |-> 0]
    ELSE [w |-> a, returncode |-> 1]

\* d is the number of quit() calls on the stack
RECURSIVE quit(_, _, _)
RECURSIVE quit_all(_, _)
RECURSIVE QuitEach(_, _, _)

quit(a, x, d) ==
    IF d > RecursionLimit THEN Raise(a, "RecursionError")
    ELSE LET res == kill(a, a.abars[x].pid)
             a1 == IF res.returncode # 0
                   THEN LET q == quit_all(res.w, d)
                        IN IF q.raised # "none" THEN q
                           ELSE [q EXCEPT !._instances = <<>>]
                   ELSE res.w
         IN IF a1.raised # "none" THEN a1
            ELSE LET a2 == IF In(a1._instances, x)
                           THEN [a1 EXCEPT !._instances = RemoveFirst(@, x)]
                           ELSE a1
                 IN [a2 EXCEPT !.abars[x].pid = IntNone, !.abars[x].port = IntNone]

\* [abar.quit() for abar in insts]
QuitEach(a, insts, d) ==
    IF insts = <<>> \/ a.raised # "none" THEN a
    ELSE QuitEach(quit(a, insts[1], d + 1), Tail(insts), d)

quit_all(a, d) ==
    LET a1 == QuitEach(a, Reversed(a._instances), d)
    IN IF a1.raised # "none" THEN a1
       ELSE killall([a1 EXCEPT !._instances = <<>>])

start(a, x, setenv_ok, open_ok) ==
    LET running == pgrep(a)
        me == a.abars[x]
        live == me.pid # IntNone /\ In(running, me.pid)
        already == live /\ me.port # IntNone
        a1 == IF me.pid = IntNone THEN a
              ELSE IF live
              THEN (IF me.port = IntNone THEN quit(a, x, 1) ELSE a)
              ELSE [a EXCEPT !.abars[x].pid = IntNone, !.abars[x].port = IntNone]
    IN IF a1.raised # "none" THEN a1
       ELSE LET a2 == IF ~already /\ a1.abars[x].port = IntNone
                      THEN [a1 EXCEPT !.abars[x].port = BASE_PORT + Len(running)]
                      ELSE a1
            IN IF a2.abars[x].pid # IntNone THEN a2
               ELSE IF setenv(setenv_ok) # 0 THEN a2
               ELSE LET r == open_(a2, open_ok)
                        a3 == [r.w EXCEPT !.abars[x].pid = r.pid]
                    IN IF r.pid # IntNone
                       THEN [a3 EXCEPT !._instances = Append(@, x)]
                       ELSE a3

AnyBar__init__(a, x, color, port, pid, singleton, setenv_ok, open_ok) ==
    LET running == pgrep(a)
        a1 == [a EXCEPT !.abars[x] =
                  [made |-> TRUE,
                   color |-> IF color = "None" THEN "white" ELSE color,
                   port |-> IF singleton THEN BASE_PORT ELSE port,
                   pid |-> IF singleton /\ running # <<>> THEN running[1] ELSE pid]]
    IN IF ~DARWIN THEN ConsoleWrite(a1, "stderr", Str_NotAvailable)
       ELSE start(a1, x, setenv_ok, open_ok)

\* the datagram sent whatever the color is
set_color_Unchecked(a, x, color) ==
    LET c == IF color = "None" THEN a.abars[x].color ELSE color
    IN IF a.abars[x].port = IntNone \/ a.abars[x].pid = IntNone
       THEN ConsoleWrite(a, "stderr", Str_NotRunning)
       ELSE [a EXCEPT !.sentto = Append(@, [data |-> c, port |-> a.abars[x].port]),
                      !.abars[x].color = c]

set_color(a, x, color) ==
    LET c == IF color = "None" THEN a.abars[x].color ELSE color
    IN IF a.abars[x].port = IntNone \/ a.abars[x].pid = IntNone
       THEN ConsoleWrite(a, "stderr", Str_NotRunning)
       ELSE IF c \notin ANYBAR_COLORS THEN Raise(a, "ValueError")
       ELSE [a EXCEPT !.sentto = Append(@, [data |-> c, port |-> a.abars[x].port]),
                      !.abars[x].color = c]

\* the first color set whatever the color is
toggle_AlwaysFirst(a, color1, color2) ==
    IF a._instances = <<>> THEN a
    ELSE set_color(a, a._instances[Len(a._instances)], color1)

toggle(a, color1, color2) ==
    IF a._instances = <<>> THEN a
    ELSE LET abar == a._instances[Len(a._instances)]
             color == a.abars[abar].color
         IN IF color \notin {color1, color2} THEN set_color(a, abar, color1)
            ELSE set_color(a, abar, IF color = color2 THEN color1 ELSE color2)

-----------------------------------------------------------------------------
(* Construction                                                            *)

\* set_prefix_color / set_message_color: the color function stored
set_prefix_color(color) ==
    IF WINDOWS THEN <<"s", "t", "r">>
    ELSE COL_FUNC[IF color = "None" THEN DEFAULT_PREFIX_COLOR ELSE color]

set_message_color(color) ==
    IF WINDOWS THEN <<"s", "t", "r">>
    ELSE COL_FUNC[IF color = "None" THEN DEFAULT_MSG_COLOR ELSE color]

\* the arguments each instance is constructed with: instance 1 is
\* Logger = ConsolePrinter(), instance 2 is ConsolePrinter('io', 'red', 'green')
InitArgs ==
    [i \in Insts |->
        IF i = 1 THEN [prefix |-> <<>>, prefix_color |-> "None", message_color |-> "None"]
        ELSE [prefix |-> Str_io, prefix_color |-> "red", message_color |-> "green"]]

NoCall == [op |-> "none"]

Init ==
    /\ QUIET_MODE = FALSE
    /\ DEBUG_MODE = FALSE
    /\ _outputfile = "None"
    /\ _fd = FdNone
    /\ _timestamp = FALSE
    /\ _hanging = FALSE
    /\ _prefix = [i \in Insts |-> InitArgs[i].prefix]
    /\ _pref = [i \in Insts |-> set_prefix_color(InitArgs[i].prefix_color)]
    /\ _msgf = [i \in Insts |-> set_message_color(InitArgs[i].message_color)]
    /\ _notifier = [i \in Insts |-> FALSE]
    /\ fs = [p \in Paths |-> NoFile]
    /\ handles = [p \in Paths |-> 0]
    /\ pc = "idle"
    /\ last = NoCall
    /\ pre = Snap(World)
    /\ out = <<>>
    /\ sent = <<>>
    /\ raised = "none"
    /\ s_in = <<>>
    /\ c_in = "None"
    /\ abars = [x \in ABars |-> NoBar]
    /\ _instances = <<>>
    /\ procs = {}
    /\ nextpid = 1
    /\ sentto = <<>>
    /\ a_pre = ASnap(AWorld)
    /\ plain = TRUE

-----------------------------------------------------------------------------
(* Actions: one per call of the caller                                     *)

\* the call returns (or raises) to the caller, leaving world w
Commit(w, call) ==
    /\ pc = "idle"
    /\ QUIET_MODE' = w.QUIET_MODE
    /\ DEBUG_MODE' = w.DEBUG_MODE
    /\ _outputfile' = w._outputfile
    /\ _fd' = w._fd
    /\ _timestamp' = w._timestamp
    /\ _hanging' = w._hanging
    /\ _notifier' = w._notifier
    /\ fs' = w.fs
    /\ out' = w.out
    /\ sent' = w.sent
    /\ raised' = w.raised
    /\ handles' = w.handles
    /\ pc' = "returned"
    /\ last' = call
    /\ pre' = Snap(World)
    /\ UNCHANGED <<_prefix, _pref, _msgf, s_in, c_in, anybarVars>>

\* the caller goes on to its next call
Return ==
    /\ pc = "returned"
    /\ pc' = "idle"
    /\ last' = NoCall
    /\ pre' = Snap(World)
    /\ out' = <<>>
    /\ sent' = <<>>
    /\ raised' = "none"
    /\ sentto' = <<>>
    /\ a_pre' = ASnap(AWorld)
    /\ UNCHANGED <<QUIET_MODE, DEBUG_MODE, _outputfile, _fd, _timestamp,
                   _hanging, _prefix, _pref, _msgf, _notifier, fs, handles,
                   s_in, c_in, abars, _instances, procs, nextpid, plain>>

\* the logs are small enough for one more write to be explored
LogRoom == LogSize(fs, Paths) <= MaxLog

Severities == [debug : BOOLEAN, error : BOOLEAN, warning : BOOLEAN]

Opt(sev, quiet, prefix, hideprefix, popup) ==
    [hideprefix |-> hideprefix, popup |-> popup, debug |-> sev.debug,
     error |-> sev.error, warning |-> sev.warning, prefix |-> prefix,
     quiet |-> quiet]

OneOf(sev) ==
    [debug |-> sev = "debug", error |-> sev = "error", warning |-> sev = "warning"]

\* the calls explored: every combination of the severity flags and of the
\* quiet keyword on a one-line message or none, and every combination of
\* the rendering keywords on the longer messages for each single severity
GateCalls ==
    {[i |-> i, msg |-> msg, o |-> Opt(sev, quiet, <<>>, FALSE, FALSE)] :
        i \in Insts, msg \in {<<>>, <<Str_hello>>}, sev \in Severities,
        quiet \in {<<>>, <<TRUE>>, <<FALSE>>}}

RenderCalls ==
    {[i |-> c[1], msg |-> c[2], o |-> Opt(OneOf(c[3]), <<>>, c[4], c[5], c[6])] :
        c \in Insts \X {<<Str_ab>>, <<Str_ErrTmpl, Str_diskfull>>}
                \X {"normal", "debug", "warning", "error"}
                \X {<<>>, <<Str_pp>>} \X BOOLEAN \X BOOLEAN}

PopupCalls ==
    {[i |-> i, msg |-> msg, o |-> Opt(sev, quiet, <<>>, FALSE, TRUE)] :
        i \in Insts, msg \in {<<>>, <<Str_hello>>}, sev \in {OneOf("normal"), OneOf("debug")},
        quiet \in {<<>>, <<TRUE>>}}

\* red('t') as the message, with a popup
ColorCalls ==
    {[i |-> 1, msg |-> <<_color_format(COL_FUNC.red, Str_t)>>,
      o |-> Opt(OneOf("normal"), <<>>, <<>>, FALSE, TRUE)]}

Calls == GateCalls \cup RenderCalls \cup PopupCalls \cup ColorCalls

Emit ==
    /\ pc = "idle"
    /\ LogRoom
    /\ \E c \in Calls :
        Commit(Call(World, c.i, c.msg, c.o, FALSE),
               [op |-> "call", i |-> c.i, msg |-> c.msg, o |-> c.o, wfail |-> FALSE])

\* a call during which the operating system fails the write to the log
EmitWriteFails ==
    /\ pc = "idle"
    /\ LogRoom
    /\ _isopen(World)
    /\ \E i \in Insts, sev \in {"normal", "debug", "error"} :
        LET o == Opt(OneOf(sev), <<>>, <<>>, FALSE, FALSE)
        IN Commit(Call(World, i, <<Str_hello>>, o, TRUE),
                  [op |-> "call", i |-> i, msg |-> <<Str_hello>>, o |-> o, wfail |-> TRUE])

Printf ==
    /\ pc = "idle"
    /\ LogRoom
    /\ \E i \in Insts, s \in RawStrs, color \in {"None", "green"}, wfail \in BOOLEAN :
        /\ wfail => _isopen(World)
        /\ Commit(printf(World, i, s, color, wfail),
                  [op |-> "printf", i |-> i, s |-> s, color |-> color, wfail |-> wfail])

\* the caller's sequence set_outputfile(p, newfile=True); Logger('hello');
\* closefile(), cut short by the first call that raises
HelloSequence(w, p, ok) ==
    LET w1 == set_outputfile(w, p, TRUE, ok)
        w2 == IF w1.raised # "none" THEN w1
              ELSE Call(w1, 1, <<Str_hello>>,
                        Opt(OneOf("normal"), <<>>, <<>>, FALSE, FALSE), FALSE)
    IN IF w2.raised # "none" THEN w2 ELSE closefile(w2)

LogHello ==
    /\ pc = "idle"
    /\ LogRoom
    /\ \E p \in Paths, ok \in BOOLEAN :
        Commit(HelloSequence(World, p, ok), [op |-> "hello_sequence", p |-> p, ok |-> ok])

Openfile ==
    /\ pc = "idle"
    /\ \E newfile \in BOOLEAN, ok \in BOOLEAN :
        Commit(openfile(World, newfile, ok),
               [op |-> "openfile", newfile |-> newfile, ok |-> ok])

Closefile == pc = "idle" /\ Commit(closefile(World), [op |-> "closefile"])

Removefile == pc = "idle" /\ Commit(removefile(World), [op |-> "removefile"])

SetOutputfile ==
    /\ pc = "idle"
    /\ \E fpath \in Paths \cup {"None"}, newfile \in BOOLEAN, ok \in BOOLEAN :
        Commit(set_outputfile(World, fpath, newfile, ok),
               [op |-> "set_outputfile", fpath |-> fpath, newfile |-> newfile, ok |-> ok])

SetTimestamps ==
    /\ pc = "idle"
    /\ LogRoom
    /\ \E active \in BOOLEAN :
        Commit(set_timestamps(World, active), [op |-> "set_timestamps", active |-> active])

\* the caller assigns the module globals QUIET_MODE and DEBUG_MODE
SetQuietMode ==
    /\ pc = "idle"
    /\ LogRoom
    /\ \E b \in BOOLEAN :
        Commit([World EXCEPT !.QUIET_MODE = b], [op |-> "QUIET_MODE", b |-> b])

SetDebugMode ==
    /\ pc = "idle"
    /\ LogRoom
    /\ \E b \in BOOLEAN :
        Commit([World EXCEPT !.DEBUG_MODE = b], [op |-> "DEBUG_MODE", b |-> b])

Next ==
    \/ Emit
    \/ EmitWriteFails
    \/ LogHello
    \/ Printf
    \/ Openfile
    \/ Closefile
    \/ Removefile
    \/ SetOutputfile
    \/ SetTimestamps
    \/ SetQuietMode
    \/ SetDebugMode
    \/ Return

Spec == Init /\ [][Next]_vars

-----------------------------------------------------------------------------
(* The escape-stripping substitution on arbitrary strings                  *)

MaxStr == 8             \* longest input string of the stripping specification

StripAlphabet == {ESC, "[", "0", ";", "m"}

\* the caller extends the string it is about to write to the log
StripAppend ==
    /\ Len(s_in) < MaxStr
    /\ \E ch \in StripAlphabet : s_in' = Append(s_in, ch)
    /\ UNCHANGED <<consoleVars, c_in, anybarVars>>

NextStrip == StripAppend

SpecStrip == Init /\ [][NextStrip]_vars

-----------------------------------------------------------------------------
(* The color formatters followed by the stripping of the file mirror, on   *)
(* every color name and every plain text up to MaxText characters          *)

MaxText == 3            \* longest plain text of the color specification

PlainAlphabet == {"t", "0", "m", "["}

ColorNames == DOMAIN COL_FUNC

ColorPick ==
    /\ c_in = "None"
    /\ \E c \in ColorNames : c_in' = c
    /\ UNCHANGED <<consoleVars, s_in, anybarVars>>

ColorAppend ==
    /\ Len(s_in) < MaxText
    /\ \E ch \in PlainAlphabet : s_in' = Append(s_in, ch)
    /\ UNCHANGED <<consoleVars, c_in, anybarVars>>

NextColor == ColorPick \/ ColorAppend

SpecColor == Init /\ [][NextColor]_vars

-----------------------------------------------------------------------------
(* AnyBar: one action per call of the caller, that chooses what the shell  *)
(* calls of the handler return                                             *)

ACommit(a, call, isplain) ==
    /\ pc = "idle"
    /\ abars' = a.abars
    /\ _instances' = a._instances
    /\ procs' = a.procs
    /\ nextpid' = a.nextpid
    /\ sentto' = a.sentto
    /\ out' = a.out
    /\ raised' = a.raised
    /\ pc' = "returned"
    /\ last' = call
    /\ a_pre' = ASnap(AWorld)
    /\ plain' = (plain /\ isplain)
    /\ UNCHANGED <<QUIET_MODE, DEBUG_MODE, _outputfile, _fd, _timestamp,
                   _hanging, _prefix, _pref, _msgf, _notifier, fs, handles,
                   pre, sent, s_in, c_in>>

Str_pinkish == "pink-ish"

NewColors == {"None", "green"}
SetColors == {"None", "green", Str_pinkish}
ToggleColors == {"green", "purple", Str_pinkish}

Made == {x \in ABars : abars[x].made}

New ==
    /\ pc = "idle"
    /\ nextpid <= MaxPid
    /\ Made # ABars
    /\ LET x == CHOOSE y \in ABars \ Made : \A z \in ABars \ Made : y <= z
       IN \E color \in NewColors, singleton \in BOOLEAN,
             pid \in {IntNone} \cup procs, setenv_ok \in BOOLEAN, open_ok \in BOOLEAN :
            ACommit(AnyBar__init__(AWorld, x, color, IntNone, pid, singleton,
                                   setenv_ok, open_ok),
                    [op |-> "__init__", x |-> x, color |-> color, pid |-> pid,
                     singleton |-> singleton, setenv_ok |-> setenv_ok,
                     open_ok |-> open_ok],
                    ~singleton /\ pid = IntNone)

Start ==
    /\ pc = "idle"
    /\ nextpid <= MaxPid
    /\ \E x \in Made, setenv_ok \in BOOLEAN, open_ok \in BOOLEAN :
            ACommit(start(AWorld, x, setenv_ok, open_ok),
                    [op |-> "start", x |-> x, setenv_ok |-> setenv_ok,
                     open_ok |-> open_ok], TRUE)

Quit ==
    /\ pc = "idle"
    /\ \E x \in Made : ACommit(quit(AWorld, x, 1), [op |-> "quit", x |-> x], TRUE)

QuitAll ==
    /\ pc = "idle"
    /\ ACommit(quit_all(AWorld, 0), [op |-> "quit_all"], FALSE)

Toggle ==
    /\ pc = "idle"
    /\ \E color1 \in ToggleColors, color2 \in ToggleColors :
            ACommit(toggle(AWorld, color1, color2),
                    [op |-> "toggle", color1 |-> color1, color2 |-> color2], FALSE)

SetColor ==
    /\ pc = "idle"
    /\ \E x \in Made, color \in SetColors :
            ACommit(set_color(AWorld, x, color),
                    [op |-> "set_color", x |-> x, color |-> color], FALSE)

NextAnyBar == New \/ Start \/ Quit \/ QuitAll \/ Toggle \/ SetColor \/ Return

SpecAnyBar == Init /\ [][NextAnyBar]_vars

-----------------------------------------------------------------------------
(* Claims                                                                  *)

Returned(op) == pc = "returned" /\ last.op = op

\* the claimed rule for an emit to print, from the flags q = QUIET_MODE and
\* d = DEBUG_MODE the call started with
ShouldPrint(q, d, o) ==
    \/ o.warning \/ o.error
    \/ /\ ~(IF o.quiet = <<>> THEN q ELSE o.quiet[1])
       /\ (~o.debug \/ d)

\* the raw write that resolves a hanging line
NewlineWrite(i) == [stream |-> "stdout", text |-> _color_format(_pref[i], <<NL>>)]

\* the prefixed first line of an emit
FirstLineWrite(i, o, msg) ==
    [stream |-> ConsoleOf(o),
     text |-> Colored(PrefColor(i, o),
                      IF o.hideprefix THEN Spaces(Len(PreOf(i, o))) ELSE PreOf(i, o))
              \o Colored(MsgColor(i, o), SplitNL(MessageOf(msg))[1]) \o <<NL>>]

\* C1: an emit that is not gated and has a message writes exactly one newline
\* before its prefixed first line if the hanging flag (set by the most recent
\* printf write that did not end in a newline) is set when it starts, and no
\* extra newline otherwise.
C1_HangingResolved ==
    (/\ Returned("call") /\ raised = "none" /\ last.msg # <<>>
     /\ ShouldPrint(pre.QUIET_MODE, pre.DEBUG_MODE, last.o))
    => IF pre._hanging
       THEN /\ Len(out) >= 2
            /\ out[1] = NewlineWrite(last.i)
            /\ out[2] = FirstLineWrite(last.i, last.o, last.msg)
       ELSE /\ Len(out) >= 1
            /\ out[1] = FirstLineWrite(last.i, last.o, last.msg)

\* C2: an emit with a message produces console output if and only if it is a
\* warning or an error, or it is not quiet for this call and is either not a
\* debug emit or DEBUG_MODE is on.
C2_GatingRule ==
    (Returned("call") /\ last.msg # <<>>)
    => (out # <<>> <=> ShouldPrint(pre.QUIET_MODE, pre.DEBUG_MODE, last.o))

C2_Witness ==
    /\ Returned("call") /\ last.msg # <<>>
    /\ pre.QUIET_MODE /\ last.o.error /\ last.o.debug /\ ~pre.DEBUG_MODE
    /\ out # <<>>

\* C3: a suppressed emit writes nothing to the console, forwards no
\* notification, constructs no notifier, and leaves the log files, the file
\* handle and path, the hanging flag and the prefix as they were.
C3_GatedNoEffect ==
    (Returned("call") /\ ~ShouldPrint(pre.QUIET_MODE, pre.DEBUG_MODE, last.o))
    => /\ out = <<>>
       /\ sent = <<>>
       /\ Snap(World) = pre
       /\ _prefix[last.i] = InitArgs[last.i].prefix

C3_Witness ==
    /\ Returned("call") /\ ~ShouldPrint(pre.QUIET_MODE, pre.DEBUG_MODE, last.o)
    /\ last.o.popup /\ last.msg # <<>>
    /\ pre._hanging /\ _isopen(pre) /\ ~pre._notifier[last.i]
    /\ pre.fs[pre._fd.path].data # <<>>

\* C4: every emit called with no message argument raises ValueError.
C4_ZeroArgsRaise ==
    (Returned("call") /\ last.msg = <<>>) => raised = "ValueError"

\* C5: when opening the log file fails, or writing to it fails, the call
\* raises nothing and the stored path and handle are cleared.
OpenAttempted ==
    \/ /\ Returned("openfile")
       /\ pre._outputfile # "None" /\ ~_isopen(pre)
    \/ /\ Returned("set_outputfile")
       /\ last.fpath # "None"
       /\ ~(last.fpath = pre._outputfile /\ _isopen(pre))

WriteAttempted ==
    \/ Returned("printf") /\ ~pre.QUIET_MODE /\ _isopen(pre)
    \/ /\ Returned("call") /\ last.msg # <<>> /\ _isopen(pre)
       /\ ShouldPrint(pre.QUIET_MODE, pre.DEBUG_MODE, last.o)
       /\ ~last.o.debug

C5_IOFailureAbsorbed ==
    ((OpenAttempted /\ ~last.ok) \/ (WriteAttempted /\ last.wfail))
    => /\ raised = "none"
       /\ _outputfile = "None"
       /\ ~_isopen(World)

Str_helloNL == Str_hello \o <<NL>>
Str_ErrDiskFull == Str_Error \o <<":", " ">> \o Str_diskfull
ErrorOnly == Opt(OneOf("error"), <<>>, <<>>, FALSE, FALSE)

\* C6 as claimed: from any state with quiet mode off and timestamps off, the
\* sequence set_outputfile(p, newfile=True); emit('hello') on the printer with
\* the empty prefix; closefile(), with the open succeeding, leaves the file
\* at p holding exactly 'hello\n'.
C6_HelloFileAnyState ==
    (/\ Returned("hello_sequence") /\ last.ok
     /\ ~pre.QUIET_MODE /\ ~pre._timestamp)
    => fs[last.p] = [exists |-> TRUE, data |-> Str_helloNL]

\* C6 as amended: the same, from a state whose hanging flag is clear and
\* where no log file is already open on p.
C6_HelloFile ==
    (/\ Returned("hello_sequence") /\ last.ok
     /\ ~pre.QUIET_MODE /\ ~pre._timestamp
     /\ ~pre._hanging
     /\ ~(pre._outputfile = last.p /\ _isopen(pre)))
    => fs[last.p] = [exists |-> TRUE, data |-> Str_helloNL]

C6_Witness ==
    /\ Returned("hello_sequence") /\ last.ok
    /\ ~pre.QUIET_MODE /\ ~pre._timestamp /\ ~pre._hanging
    /\ ~(pre._outputfile = last.p /\ _isopen(pre))
    /\ pre.fs[last.p].data # <<>>
    /\ fs[last.p].data = Str_helloNL
    /\ ~_isopen(World)

\* C7: set_outputfile on the path a file is already open on changes neither
\* the handle, nor the stored path, nor any file, for either value of newfile.
C7_SamePathNoOp ==
    (/\ Returned("set_outputfile")
     /\ last.fpath = pre._outputfile /\ _isopen(pre))
    => /\ Snap(World) = pre
       /\ raised = "none"

C7_Witness ==
    /\ Returned("set_outputfile")
    /\ last.fpath = pre._outputfile /\ _isopen(pre)
    /\ last.newfile
    /\ pre.fs[last.fpath].data # <<>>
    /\ fs = pre.fs /\ _fd = pre._fd

\* the emit of C8: emit('Error: {}', 'disk full', error=True) that returned
C8_Call ==
    /\ Returned("call") /\ raised = "none"
    /\ last.msg = <<Str_ErrTmpl, Str_diskfull>>
    /\ last.o = ErrorOnly

\* C8 as claimed: the emit writes to the error stream a red line whose text
\* is 'Error: disk full' and, if a log file is open with timestamps off,
\* appends exactly 'ERROR -> disk full\n' to it.
C8_ErrorRenderingAsClaimed ==
    C8_Call
    => /\ \E k \in 1..Len(out) :
            /\ out[k].stream = "stderr"
            /\ StripEscapes(out[k].text) = Str_ErrDiskFull \o <<NL>>
       /\ (_isopen(pre) /\ ~pre._timestamp)
          => fs[pre._fd.path].data =
                pre.fs[pre._fd.path].data \o Str_ERROR \o Str_diskfull \o <<NL>>

\* C8 as amended: the emit writes to the error stream the red prefix
\* 'Error: ' followed by the red message 'Error: disk full', and, if a log
\* file is open with timestamps off, appends 'ERROR -> Error: disk full\n' to
\* it, after the newline of a resolved hanging line if the hanging flag was
\* set with QUIET_MODE off.
C8_ErrorRendering ==
    C8_Call
    => /\ out[Len(out)] =
            [stream |-> "stderr",
             text |-> _color_format(COL_FUNC.red, Str_Error \o <<":", " ">>)
                      \o _color_format(COL_FUNC.red, Str_ErrDiskFull) \o <<NL>>]
       /\ (_isopen(pre) /\ ~pre._timestamp)
          => fs[pre._fd.path].data =
                pre.fs[pre._fd.path].data
                \o (IF pre._hanging /\ ~pre.QUIET_MODE THEN <<NL>> ELSE <<>>)
                \o Str_ERROR \o Str_ErrDiskFull \o <<NL>>

C8_Witness ==
    /\ C8_Call
    /\ _isopen(pre) /\ ~pre._timestamp
    /\ pre.fs[pre._fd.path].data # <<>>
    /\ fs[pre._fd.path].data =
            pre.fs[pre._fd.path].data \o Str_ERROR \o Str_ErrDiskFull \o <<NL>>

\* C9 as claimed: a debug emit leaves the content of the log files unchanged.
C9_DebugNeverWrites ==
    (Returned("call") /\ last.o.debug /\ ~last.o.warning /\ ~last.o.error)
    => fs = pre.fs

\* C9 as amended: a debug emit never writes its message to the log file; the
\* only thing it can append is the one newline that resolves a hanging line,
\* and only when the hanging flag was set.
C9_DebugMessageNotPersisted ==
    (Returned("call") /\ last.o.debug)
    => \/ fs = pre.fs
       \/ /\ pre._hanging /\ _isopen(pre)
          /\ fs = [pre.fs EXCEPT ![pre._fd.path].data = @ \o <<NL>>]

C9_Witness ==
    /\ Returned("call") /\ last.o.debug /\ raised = "none"
    /\ last.msg # <<>> /\ out # <<>>
    /\ _isopen(pre) /\ pre.DEBUG_MODE
    /\ pre.fs[pre._fd.path].data # <<>>
    /\ fs = pre.fs

\* C10: stripping the escape sequences of an already stripped string changes
\* nothing.
C10_StripIdempotent ==
    StripEscapes(StripEscapes(s_in)) = StripEscapes(s_in)

\* C11: for every color name and every plain text, the text formatted with
\* that color and then stripped as the file mirror strips it is the plain
\* text again.
C11_MirrorHasNoEscapes ==
    c_in # "None"
    => StripEscapes(_color_format(COL_FUNC[c_in], s_in)) = s_in

\* an emit that printed a message of more than one line
C12_Call ==
    /\ Returned("call") /\ raised = "none" /\ last.msg # <<>>
    /\ ShouldPrint(pre.QUIET_MODE, pre.DEBUG_MODE, last.o)
    /\ Len(SplitNL(MessageOf(last.msg))) > 1

\* the width of the display prefix: the forced, passed or default prefix
\* followed by ': ', or nothing when that prefix is empty
C12_Width(i, o) ==
    LET prefix == IF o.error THEN Str_Error
                  ELSE IF o.warning THEN Str_Warning
                  ELSE IF o.debug THEN Str_Debug
                  ELSE IF o.prefix # <<>> THEN StrStrip(o.prefix[1])
                  ELSE StrStrip(_prefix[i])
    IN IF prefix = <<>> THEN 0 ELSE Len(prefix) + 2

\* C12: every console line after the first of a multi-line emit is the
\* message line in the message color behind exactly as many spaces as the
\* display prefix is wide, whichever way the prefix was resolved and whether
\* or not it is hidden.
C12_ContinuationAligned ==
    C12_Call
    => LET lines == SplitNL(MessageOf(last.msg))
           k0 == Len(out) - Len(lines)
       IN /\ k0 >= 0
          /\ \A j \in 2..Len(lines) :
                out[k0 + j] =
                    [stream |-> ConsoleOf(last.o),
                     text |-> Spaces(C12_Width(last.i, last.o))
                              \o Colored(MsgColor(last.i, last.o), lines[j])
                              \o <<NL>>]

C12_Witness ==
    /\ C12_Call
    /\ last.o.hideprefix /\ last.o.prefix = <<Str_pp>>
    /\ ~last.o.error /\ ~last.o.warning /\ ~last.o.debug
    /\ out[Len(out)].text =
            Spaces(4) \o Colored(_msgf[last.i], <<"b">>) \o <<NL>>

\* a set_color call whose color, the stored one if none is passed, is not
\* one of COLORS
C13_Call ==
    /\ Returned("set_color")
    /\ (IF last.color = "None" THEN a_pre.abars[last.x].color ELSE last.color)
            \notin ANYBAR_COLORS

\* the instance had a port and a pid when the call started
C13_Running ==
    /\ a_pre.abars[last.x].port # IntNone
    /\ a_pre.abars[last.x].pid # IntNone

\* C13 as claimed: set_color with a color that is not in COLORS raises
\* ValueError, sends no datagram and leaves the stored color unchanged,
\* whether or not the instance has a port and a pid.
C13_InvalidColorAlwaysRaises ==
    C13_Call
    => /\ raised = "ValueError"
       /\ sentto = <<>>
       /\ abars[last.x].color = a_pre.abars[last.x].color

\* C13 as amended: set_color with a color that is not in COLORS sends no
\* datagram and leaves the stored color unchanged; it raises ValueError if
\* the instance has a port and a pid, and otherwise prints 'AnyBar: not
\* running' to stderr and returns without raising.
C13_InvalidColorRejected ==
    C13_Call
    => /\ sentto = <<>>
       /\ abars[last.x].color = a_pre.abars[last.x].color
       /\ IF C13_Running
          THEN raised = "ValueError" /\ out = <<>>
          ELSE /\ raised = "none"
               /\ out = <<[stream |-> "stderr", text |-> Str_NotRunning]>>

C13_Witness ==
    /\ C13_Call /\ C13_Running
    /\ last.color = Str_pinkish
    /\ raised = "ValueError"
    /\ a_pre.abars[last.x].color = "green"
    /\ abars[last.x].color = "green"

\* C14: a popup requested on an emit that prints sends one notification
\* whose body is the message, without any of its own characters removed,
\* for every severity, and the printer has its notifier from then on.
C14_PopupBody ==
    (/\ Returned("call") /\ raised = "none" /\ last.msg # <<>>
     /\ last.o.popup
     /\ ShouldPrint(pre.QUIET_MODE, pre.DEBUG_MODE, last.o)
     /\ StripEscapes(MessageOf(last.msg)) = MessageOf(last.msg))
    => /\ Len(sent) = 1
       /\ sent[1].body = MessageOf(last.msg)
       /\ _notifier[last.i]
       /\ \A j \in Insts \ {last.i} : _notifier[j] = pre._notifier[j]

\* a toggle made when the last registered instance has a port and a pid
C15_Call ==
    /\ Returned("toggle")
    /\ a_pre._instances # <<>>
    /\ LET abar == a_pre._instances[Len(a_pre._instances)]
       IN /\ a_pre.abars[abar].port # IntNone
          /\ a_pre.abars[abar].pid # IntNone

\* the color the claim gives the instance of color c after toggle(c1, c2)
C15_Other(c, c1, c2) == IF c = c1 THEN c2 ELSE IF c = c2 THEN c1 ELSE c1

\* a toggle with no registered instance changes nothing and sends nothing
C15_NoInstance ==
    (Returned("toggle") /\ a_pre._instances = <<>>)
    => /\ ASnap(AWorld) = a_pre
       /\ sentto = <<>> /\ out = <<>> /\ raised = "none"

\* C15 as claimed: toggle(color1, color2) leaves the last registered running
\* instance with color1 or color2: color2 if it had color1, color1 if it had
\* color2 or any other color; a second toggle with the same arguments gives
\* back a color that was one of the two; with no registered instance it
\* changes nothing and sends nothing.
C15_ToggleAnyColors ==
    /\ C15_NoInstance
    /\ C15_Call
       => LET abar == a_pre._instances[Len(a_pre._instances)]
              c == a_pre.abars[abar].color
          IN /\ abars[abar].color \in {last.color1, last.color2}
             /\ abars[abar].color = C15_Other(c, last.color1, last.color2)
             /\ c \in {last.color1, last.color2}
                => toggle(AWorld, last.color1, last.color2).abars[abar].color = c

\* C15 as amended: the same for color1 and color2 in COLORS; when the color
\* the toggle would set is not in COLORS it raises ValueError, sends nothing
\* and leaves the color unchanged.
C15_Toggle ==
    /\ C15_NoInstance
    /\ C15_Call
       => LET abar == a_pre._instances[Len(a_pre._instances)]
              c == a_pre.abars[abar].color
              target == C15_Other(c, last.color1, last.color2)
          IN IF target \in ANYBAR_COLORS
             THEN /\ raised = "none"
                  /\ abars[abar].color = target
                  /\ sentto = <<[data |-> target, port |-> a_pre.abars[abar].port]>>
                  /\ (c \in {last.color1, last.color2}
                      /\ {last.color1, last.color2} \subseteq ANYBAR_COLORS)
                     => toggle(AWorld, last.color1, last.color2).abars[abar].color = c
             ELSE /\ raised = "ValueError"
                  /\ abars[abar].color = c
                  /\ sentto = <<>>

C15_Witness ==
    /\ C15_Call /\ raised = "none"
    /\ last.color1 = "green" /\ last.color2 = "purple"
    /\ LET abar == a_pre._instances[Len(a_pre._instances)]
       IN /\ a_pre.abars[abar].color = "green"
          /\ abars[abar].color = "purple"
          /\ Len(a_pre._instances) > 1
          /\ sentto = <<[data |-> "purple", port |-> abars[abar].port]>>

\* C16: quit() returns without raising and leaves the instance with no pid,
\* no port and out of the registry; quit_all() returns without raising and
\* leaves the registry empty.
C16_QuitTerminates ==
    /\ Returned("quit")
       => /\ raised = "none"
          /\ abars[last.x].pid = IntNone
          /\ abars[last.x].port = IntNone
          /\ ~In(_instances, last.x)
    /\ Returned("quit_all")
       => /\ raised = "none"
          /\ _instances = <<>>

\* the instance holds the pid of a process that runs
Running(x) == abars[x].made /\ abars[x].pid \in procs

\* C17: when every call so far was AnyBar(singleton=False) with no port and
\* no pid, start() or quit(), no two running instances have the same port.
C17_PortsUnique ==
    plain
    => \A x \in ABars, y \in ABars :
            (x # y /\ Running(x) /\ Running(y)) => abars[x].port # abars[y].port

\* C18: the registry holds no instance twice, and every instance in it has
\* a pid and a port.
C18_RegistryInvariant ==
    \A k \in 1..Len(_instances) :
        /\ \A j \in 1..Len(_instances) : j # k => _instances[j] # _instances[k]
        /\ abars[_instances[k]].pid # IntNone
        /\ abars[_instances[k]].port # IntNone

\* C19: at most one handle is open on the log files, and whenever one is
\* open it is the handle the printer holds, the stored path is not None and
\* is the path that handle was opened on.
C19_HandleInvariant ==
    LET open == {p \in Paths : handles[p] > 0}
    IN /\ \A p \in Paths : handles[p] \in {0, 1}
       /\ Cardinality(open) <= 1
       /\ open # {} <=> _isopen(World)
       /\ _isopen(World)
          => /\ _outputfile # "None"
             /\ _fd.path = _outputfile
             /\ open = {_outputfile}

C19_Witness ==
    /\ Returned("set_outputfile") /\ last.ok
    /\ _isopen(pre) /\ pre._outputfile # last.fpath
    /\ _isopen(World) /\ _outputfile = last.fpath
    /\ handles[pre._outputfile] = 0

\* the world a snapshot was taken from
WorldOf(s) ==
    [QUIET_MODE |-> s.QUIET_MODE, DEBUG_MODE |-> s.DEBUG_MODE,
     _outputfile |-> s._outputfile, _fd |-> s._fd, _timestamp |-> s._timestamp,
     _hanging |-> s._hanging, _notifier |-> s._notifier, fs |-> s.fs,
     handles |-> s.handles, out |-> <<>>, sent |-> <<>>, raised |-> "none"]

\* C20: an emit with a popup made while a log file is open prints the same
\* console output and sends the same notification as the same emit made from
\* the same state with the log file closed.
C20_SinkIndependence ==
    (/\ Returned("call") /\ raised = "none" /\ last.o.popup /\ ~last.wfail
     /\ _isopen(pre))
    => LET twin == Call(closefile(WorldOf(pre)), last.i, last.msg, last.o, FALSE)
       IN /\ twin.out = out
          /\ twin.sent = sent

====
